---- MODULE Spec2Model ----
(***************************************************************************)
(* Weekend-Wizard: the agent decision loop of agent_fun.py.                *)
(*                                                                         *)
(* The model has three layers:                                             *)
(*   1. Python/JSON values and the operations the code applies to them     *)
(*      (json.loads, dict.get, truthiness, hashing, len, str);             *)
(*   2. llm_json's decoder, from the cleaned text of the model's reply to  *)
(*      the decision dict it returns;                                      *)
(*   3. main's loop: input, llm_json, dispatch, call_tool, safety check.   *)
(*                                                                         *)
(* A text is a sequence of tokens (punctuation, string literals, number    *)
(* literals, null/true/false, bare words, markdown fences); white space    *)
(* between tokens is not represented.  The texts of the vocabulary do not  *)
(* contain braces or brackets inside string literals or words.             *)
(***************************************************************************)
EXTENDS Integers, Sequences, FiniteSets, TLC

(***************************************************************************)
(* JSON / Python values.  Every value has the same four fields:            *)
(*   k      "str" | "num" | "null" | "bool" | "list" | "obj"               *)
(*   s      the text of a str, the literal of a num, "True"/"False"        *)
(*   items  the elements of a list                                         *)
(*   fields the (key, value) pairs of a dict, in insertion order           *)
(***************************************************************************)
JStr(s) == [k |-> "str", s |-> s, items |-> <<>>, fields |-> <<>>]

JNum(lit) == [k |-> "num", s |-> lit, items |-> <<>>, fields |-> <<>>]

JNull == [k |-> "null", s |-> "", items |-> <<>>, fields |-> <<>>]

JBool(b) == [k |-> "bool", s |-> IF b THEN "True" ELSE "False", items |-> <<>>, fields |-> <<>>]

JList(items) == [k |-> "list", s |-> "", items |-> items, fields |-> <<>>]

JObj(fields) == [k |-> "obj", s |-> "", items |-> <<>>, fields |-> fields]

KV(key, val) == [key |-> key, val |-> val]

EmptyDict == JObj(<<>>)

\* Number literals that denote zero (Python: bool(0) and bool(0.0) are False).
ZeroLiterals == {"0", "0.0"}

\* key in d
HasKey(d, key) == \E i \in 1..Len(d.fields) : d.fields[i].key = key

\* d[key], for a key that is present
Lookup(d, key) == d.fields[CHOOSE i \in 1..Len(d.fields) : d.fields[i].key = key].val

\* dict.get(key, default)
DictGet(d, key, default) == IF HasKey(d, key) THEN Lookup(d, key) ELSE default

\* d[key] = val on the pair list of a dict: a present key keeps its place.
DictSet(fields, key, val) ==
    IF \E i \in 1..Len(fields) : fields[i].key = key
    THEN [i \in 1..Len(fields) |-> IF fields[i].key = key THEN KV(key, val) ELSE fields[i]]
    ELSE Append(fields, KV(key, val))

\* bool(v)
Truthy(v) ==
    CASE v.k = "str"  -> v.s # ""
      [] v.k = "num"  -> v.s \notin ZeroLiterals
      [] v.k = "null" -> FALSE
      [] v.k = "bool" -> v.s = "True"
      [] v.k = "list" -> Len(v.items) > 0
      [] v.k = "obj"  -> Len(v.fields) > 0

\* hash(v) is defined (lists and dicts are unhashable)
Hashable(v) == v.k \notin {"list", "obj"}

\* len(v) is defined (str, list, dict)
HasLen(v) == v.k \in {"str", "list", "obj"}

\* len(v), for a value that has one
PyLen(v) ==
    CASE v.k = "str"  -> Len(v.s)
      [] v.k = "list" -> Len(v.items)
      [] v.k = "obj"  -> Len(v.fields)
      [] OTHER        -> 0

\* isinstance(v, dict), isinstance(v, list), isinstance(v, str)
IsDict(v) == v.k = "obj"

IsList(v) == v.k = "list"

IsStr(v) == v.k = "str"

RECURSIVE JoinStr(_, _)
\* sep.join(parts)
JoinStr(parts, sep) ==
    IF Len(parts) = 0 THEN ""
    ELSE IF Len(parts) = 1 THEN parts[1]
    ELSE parts[1] \o sep \o JoinStr(Tail(parts), sep)

RECURSIVE PyRepr(_)
\* repr(v): strings quoted, containers with their elements' repr.
PyRepr(v) ==
    CASE v.k = "str"  -> "'" \o v.s \o "'"
      [] v.k = "num"  -> v.s
      [] v.k = "null" -> "None"
      [] v.k = "bool" -> v.s
      [] v.k = "list" -> "[" \o JoinStr([i \in 1..Len(v.items) |-> PyRepr(v.items[i])], ", ") \o "]"
      [] v.k = "obj"  ->
            "{" \o JoinStr([i \in 1..Len(v.fields) |->
                              "'" \o v.fields[i].key \o "': " \o PyRepr(v.fields[i].val)], ", ")
                \o "}"

\* str(v): a str is itself, anything else is its repr.
PyStr(v) == IF v.k = "str" THEN v.s ELSE PyRepr(v)

(***************************************************************************)
(* Tokens of a text.                                                       *)
(***************************************************************************)
Tok(t, s) == [t |-> t, s |-> s]

LBrace == Tok("{", "")

RBrace == Tok("}", "")

LBrack == Tok("[", "")

RBrack == Tok("]", "")

Colon == Tok(":", "")

Comma == Tok(",", "")

TStr(s) == Tok("str", s)

TNum(lit) == Tok("num", lit)

TLit(s) == Tok("lit", s)

Word(s) == Tok("word", s)

Fence(s) == Tok("fence", s)

\* A string whose text holds a code fence: "<fence>" stands for the three
\* backquotes, which a string of this module cannot hold.
FencedTopic == "<fence>mystery"

\* s.replace('```json', '').replace('```', ''), for the strings of the vocabulary
Unfenced(s) == IF s = FencedTopic THEN "mystery" ELSE s

\* content.replace('```json', '').replace('```', '').strip(): the fences go,
\* those around the text and those inside the strings of the text alike.
CleanContent(raw) ==
    LET kept == SelectSeq(raw, LAMBDA tk : tk.t # "fence") IN
    [i \in 1..Len(kept) |-> IF kept[i].t = "str" THEN Tok("str", Unfenced(kept[i].s))
                                                ELSE kept[i]]

(***************************************************************************)
(* json.loads: a recursive-descent parse of a token sequence.  A result is *)
(* [ok, val, next]; next is the index of the first token not consumed.     *)
(***************************************************************************)
ParseFail == [ok |-> FALSE, val |-> JNull, next |-> 0]

ParseOk(val, next) == [ok |-> TRUE, val |-> val, next |-> next]

LitValue(s) == IF s = "null" THEN JNull ELSE JBool(s = "true")

RECURSIVE ParseValue(_, _), ParseItems(_, _, _), ParseMembers(_, _, _)
ParseValue(toks, i) ==
    IF i > Len(toks) THEN ParseFail
    ELSE CASE toks[i].t = "str" -> ParseOk(JStr(toks[i].s), i + 1)
           [] toks[i].t = "num" -> ParseOk(JNum(toks[i].s), i + 1)
           [] toks[i].t = "lit" -> ParseOk(LitValue(toks[i].s), i + 1)
           [] toks[i].t = "["   ->
                 IF i + 1 <= Len(toks) /\ toks[i + 1].t = "]"
                 THEN ParseOk(JList(<<>>), i + 2)
                 ELSE ParseItems(toks, i + 1, <<>>)
           [] toks[i].t = "{"   ->
                 IF i + 1 <= Len(toks) /\ toks[i + 1].t = "}"
                 THEN ParseOk(EmptyDict, i + 2)
                 ELSE ParseMembers(toks, i + 1, <<>>)
           [] OTHER -> ParseFail

ParseItems(toks, i, acc) ==
    LET r == ParseValue(toks, i) IN
    IF ~r.ok \/ r.next > Len(toks) THEN ParseFail
    ELSE IF toks[r.next].t = "," THEN ParseItems(toks, r.next + 1, Append(acc, r.val))
    ELSE IF toks[r.next].t = "]" THEN ParseOk(JList(Append(acc, r.val)), r.next + 1)
    ELSE ParseFail

ParseMembers(toks, i, acc) ==
    IF i + 1 > Len(toks) \/ toks[i].t # "str" \/ toks[i + 1].t # ":" THEN ParseFail
    ELSE LET r == ParseValue(toks, i + 2) IN
         IF ~r.ok \/ r.next > Len(toks) THEN ParseFail
         ELSE IF toks[r.next].t = ","
              THEN ParseMembers(toks, r.next + 1, DictSet(acc, toks[i].s, r.val))
         ELSE IF toks[r.next].t = "}"
              THEN ParseOk(JObj(DictSet(acc, toks[i].s, r.val)), r.next + 1)
         ELSE ParseFail

\* json.loads(text): the whole text is one JSON value, else JSONDecodeError (~ok).
JsonLoads(toks) ==
    LET r == ParseValue(toks, 1) IN
    IF r.ok /\ r.next = Len(toks) + 1 THEN r ELSE ParseFail

(***************************************************************************)
(* Substring tests on lower-cased text.  NeedlesIn(s) is the set of the    *)
(* words llm_json searches for that occur in s.lower(), for the texts of   *)
(* the vocabulary; a text not listed contains none of them.                *)
(***************************************************************************)
NeedlesIn(s) ==
    CASE s \in {"get_weather", "Get_Weather"}   -> {"get_weather", "weather"}
      [] s \in {"weather", "Weather"}           -> {"weather"}
      [] s = "temperature"                      -> {"temperature"}
      [] s = "answer"                           -> {"answer"}
      [] s = "book_recs"                        -> {"book_recs"}
      [] s \in {"random_joke", "Random_Joke"}   -> {"random_joke"}
      [] s = "random_dog"                       -> {"random_dog"}
      [] s = "city_to_coords"                   -> {"city_to_coords"}
      [] s = "trivia"                           -> {"trivia"}
      [] s = "mystery"                          -> {"mystery"}
      [] OTHER                                  -> {}

\* needle in content.lower()
Mentions(toks, needle) == \E i \in 1..Len(toks) : needle \in NeedlesIn(toks[i].s)

\* Number literals of the form -?\d+\.\d+ and the float each denotes.
FloatLiterals == {"1.0", "2.0", "40.7128", "-74.0060"}

\* float(lit), written as Python prints it
PyFloat(lit) == IF lit = "-74.0060" THEN "-74.006" ELSE lit

IsFloatTok(tk) == tk.t = "num" /\ tk.s \in FloatLiterals

\* The source text of one token.
TokText(tk) ==
    CASE tk.t = "str"   -> "\"" \o tk.s \o "\""
      [] tk.t \in {"num", "lit", "word", "fence"} -> tk.s
      [] OTHER          -> tk.t

\* The text a token sequence stands for, tokens separated by one blank.
Text(toks) == JoinStr([i \in 1..Len(toks) |-> TokText(toks[i])], " ")

(***************************************************************************)
(* re.search(r'(\{.*\}|\[.*\])', content, re.DOTALL): the leftmost brace   *)
(* or bracket that has a matching closer somewhere after it, up to the     *)
(* last such closer (.* is greedy).                                        *)
(***************************************************************************)
Closer(t) == IF t = "{" THEN "}" ELSE "]"

RegexStarts(toks) ==
    {i \in 1..Len(toks) : /\ toks[i].t \in {"{", "["}
                          /\ \E j \in (i + 1)..Len(toks) : toks[j].t = Closer(toks[i].t)}

SetMin(S) == CHOOSE x \in S : \A y \in S : x <= y

SetMax(S) == CHOOSE x \in S : \A y \in S : x >= y

\* json_match: [found, group]
JsonMatch(toks) ==
    IF RegexStarts(toks) = {} THEN [found |-> FALSE, group |-> <<>>]
    ELSE LET i == SetMin(RegexStarts(toks))
             j == SetMax({n \in (i + 1)..Len(toks) : toks[n].t = Closer(toks[i].t)})
         IN [found |-> TRUE, group |-> SubSeq(toks, i, j)]

(***************************************************************************)
(* re.search(r'(-?\d+\.\d+)[,\s]+(-?\d+\.\d+)', content): the leftmost     *)
(* float literal followed, after blanks and commas only, by another one.   *)
(***************************************************************************)
RECURSIVE SkipCommas(_, _)
SkipCommas(toks, i) ==
    IF i <= Len(toks) /\ toks[i].t = "," THEN SkipCommas(toks, i + 1) ELSE i

CoordStarts(toks) ==
    {i \in 1..Len(toks) : /\ IsFloatTok(toks[i])
                          /\ SkipCommas(toks, i + 1) <= Len(toks)
                          /\ IsFloatTok(toks[SkipCommas(toks, i + 1)])}

\* coord_match: [found, lat, lon]
CoordMatch(toks) ==
    IF CoordStarts(toks) = {} THEN [found |-> FALSE, lat |-> "", lon |-> ""]
    ELSE LET i == SetMin(CoordStarts(toks)) IN
         [found |-> TRUE, lat |-> PyFloat(toks[i].s),
          lon |-> PyFloat(toks[SkipCommas(toks, i + 1)].s)]

(***************************************************************************)
(* llm_json: from the HTTP outcome of the model call to the decision dict. *)
(***************************************************************************)
\* {"action": "final", "answer": answer}
FinalDecision(answer) == JObj(<<KV("action", JStr("final")), KV("answer", answer)>>)

\* {"action": action, "args": args}
CallDecision(action, args) == JObj(<<KV("action", action), KV("args", args)>>)

StatusErrorAnswer == "Error contacting weather service. Please try again."

ConnectionErrorAnswer == "Sorry, I'm having trouble connecting to services. Please try again."

EmptyListAnswer == "I received an empty response."

DefaultFinalAnswer == "I have gathered the information you requested."

\* The tool names the fallback scans the text for, in the order of the loop.
FallbackToolNames == <<"get_weather", "book_recs", "random_joke", "random_dog", "city_to_coords", "trivia">>

HasAction(v) == IsDict(v) /\ HasKey(v, "action")

\* isinstance(parsed, list): the first dict with "action" as it is, else str(parsed[0]).
DecodeList(parsed) ==
    LET hits == {i \in 1..Len(parsed.items) : HasAction(parsed.items[i])} IN
    IF hits # {} THEN parsed.items[SetMin(hits)]
    ELSE IF Len(parsed.items) > 0 THEN FinalDecision(JStr(PyStr(parsed.items[1])))
    ELSE FinalDecision(JStr(EmptyListAnswer))

\* A decoding of a dict that returns a dict with "action" as it was parsed.
DecodeDictRaw(parsed) ==
    IF HasKey(parsed, "action") THEN parsed ELSE FinalDecision(JStr(PyStr(parsed)))

\* isinstance(parsed, dict)
DecodeDict(parsed) ==
    IF HasKey(parsed, "action")
    THEN LET action == DictGet(parsed, "action", JStr(""))
             args   == DictGet(parsed, "args", EmptyDict)
             answer == DictGet(parsed, "answer", JStr(""))
         IN IF action = JStr("final")
            THEN FinalDecision(IF Truthy(answer) THEN answer ELSE JStr(DefaultFinalAnswer))
            ELSE CallDecision(action, IF IsDict(args) THEN args ELSE EmptyDict)
    ELSE IF HasKey(parsed, "answer") THEN FinalDecision(Lookup(parsed, "answer"))
    ELSE IF HasKey(parsed, "response") THEN FinalDecision(Lookup(parsed, "response"))
    ELSE FinalDecision(JStr(PyStr(parsed)))

\* The try branch: json.loads(content) succeeded with parsed.
DecodeParsed(parsed) ==
    IF IsList(parsed) THEN DecodeList(parsed)
    ELSE IF IsDict(parsed) THEN DecodeDict(parsed)
    ELSE FinalDecision(JStr(PyStr(parsed)))

\* The embedded JSON of the except branch: [found, decision].
DecodeEmbedded(content) ==
    LET m == JsonMatch(content)
        r == JsonLoads(m.group)
        none == [found |-> FALSE, decision |-> JNull]
    IN IF ~m.found \/ ~r.ok THEN none
       ELSE IF HasAction(r.val) THEN [found |-> TRUE, decision |-> r.val]
       ELSE IF IsList(r.val) /\ Truthy(r.val) /\ HasAction(r.val.items[1])
            THEN [found |-> TRUE, decision |-> r.val.items[1]]
       ELSE none

\* The tool names of the scan that occur in content.lower(), by position in the list.
MentionedTools(content) ==
    {i \in 1..Len(FallbackToolNames) : Mentions(content, FallbackToolNames[i])}

\* The for loop over the tool names: the first one found returns.
DecodeToolScan(content) ==
    LET tool_name == FallbackToolNames[SetMin(MentionedTools(content))]
        coord_match == CoordMatch(content)
    IN IF coord_match.found /\ tool_name = "get_weather"
       THEN CallDecision(JStr("get_weather"),
                         JObj(<<KV("latitude", JNum(coord_match.lat)),
                                KV("longitude", JNum(coord_match.lon))>>))
       ELSE IF tool_name = "book_recs" /\ Mentions(content, "mystery")
       THEN CallDecision(JStr("book_recs"),
                         JObj(<<KV("topic", JStr("mystery")), KV("limit", JNum("2"))>>))
       ELSE CallDecision(JStr(tool_name), EmptyDict)

\* The except json.JSONDecodeError branch.
DecodeFallback(content) ==
    LET e == DecodeEmbedded(content) IN
    IF e.found THEN e.decision
    ELSE IF Mentions(content, "weather") \/ Mentions(content, "temperature")
            \/ Mentions(content, "answer")
         THEN FinalDecision(JStr(Text(content)))
    ELSE IF MentionedTools(content) # {} THEN DecodeToolScan(content)
    ELSE FinalDecision(JStr(Text(content)))

\* The decoder: the reply's content to the decision.
DecodeContent(raw) ==
    LET content == CleanContent(raw)
        r == JsonLoads(content)
    IN IF r.ok THEN DecodeParsed(r.val) ELSE DecodeFallback(content)

\* A reply of the model call: [kind, content], kind "ok" (status 200 with content),
\* "status" (status_code != 200) or "connection" (RequestException).
Reply(kind, content) == [kind |-> kind, content |-> content]

llm_json(reply) ==
    CASE reply.kind = "status"     -> FinalDecision(JStr(StatusErrorAnswer))
      [] reply.kind = "connection" -> FinalDecision(JStr(ConnectionErrorAnswer))
      [] OTHER                     -> DecodeContent(reply.content)

(***************************************************************************)
(* json.dumps: the text of a value (used to write the replies a model      *)
(* emits for a given action).                                              *)
(***************************************************************************)
RECURSIVE Dumps(_), DumpsItems(_, _), DumpsFields(_, _)
Dumps(v) ==
    CASE v.k = "str"  -> <<TStr(v.s)>>
      [] v.k = "num"  -> <<TNum(v.s)>>
      [] v.k = "null" -> <<TLit("null")>>
      [] v.k = "bool" -> <<TLit(IF v.s = "True" THEN "true" ELSE "false")>>
      [] v.k = "list" -> <<LBrack>> \o DumpsItems(v.items, 1) \o <<RBrack>>
      [] v.k = "obj"  -> <<LBrace>> \o DumpsFields(v.fields, 1) \o <<RBrace>>

DumpsItems(items, i) ==
    IF i > Len(items) THEN <<>>
    ELSE (IF i > 1 THEN <<Comma>> ELSE <<>>) \o Dumps(items[i]) \o DumpsItems(items, i + 1)

DumpsFields(fields, i) ==
    IF i > Len(fields) THEN <<>>
    ELSE (IF i > 1 THEN <<Comma>> ELSE <<>>)
         \o <<TStr(fields[i].key), Colon>> \o Dumps(fields[i].val)
         \o DumpsFields(fields, i + 1)

(***************************************************************************)
(* Strings of a given length.                                              *)
(***************************************************************************)
RECURSIVE Rep(_, _)
\* s * n
Rep(s, n) ==
    IF n = 0 THEN ""
    ELSE IF n % 2 = 0 THEN LET half == Rep(s, n \div 2) IN half \o half
    ELSE s \o Rep(s, n - 1)

(***************************************************************************)
(* The gathered_info rules of main: from a tool's payload text to the      *)
(* value stored for its category.  Every rule is wrapped in try/except:    *)
(* an exception stores the rule's placeholder.                             *)
(***************************************************************************)
\* The integer a whole number literal denotes, -1 for a literal that is not whole.
WholeValue(lit) ==
    CASE lit \in {"0", "0.0"} -> 0
      [] lit \in {"1", "1.0"} -> 1
      [] lit \in {"2", "2.0"} -> 2
      [] lit = "3"            -> 3
      [] lit = "45"           -> 45
      [] lit = "61"           -> 61
      [] lit = "123"          -> 123
      [] OTHER                -> -1

\* code > 50 for a number literal (the literals that are not whole are below 50)
Above50(lit) == WholeValue(lit) > 50

\* code in [a, b]: Python equality, under which True == 1 and False == 0
CodeIn(code, a, b) ==
    \/ code.k = "num" /\ WholeValue(code.s) \in {a, b}
    \/ code.k = "bool" /\ (IF code.s = "True" THEN 1 ELSE 0) \in {a, b}

\* code > 50 raises TypeError unless code is a number or a bool
Ordered(code) == code.k \in {"num", "bool"}

GatherWeather(payload) ==
    LET r == JsonLoads(payload)
        weather_data == r.val
        temp == DictGet(weather_data, "temperature_2m", JStr("N/A"))
        code == DictGet(weather_data, "weather_code", JNum("0"))
    IN IF ~r.ok \/ ~IsDict(weather_data) THEN JStr("Weather data received")
       ELSE IF CodeIn(code, 0, 1) THEN JStr(PyStr(temp) \o " C, sunny")
       ELSE IF CodeIn(code, 2, 3) THEN JStr(PyStr(temp) \o " C, cloudy")
       ELSE IF ~Ordered(code) THEN JStr("Weather data received")
       ELSE IF code.k = "num" /\ Above50(code.s) THEN JStr(PyStr(temp) \o " C, rainy")
       ELSE JStr(PyStr(temp) \o " C, clear")

\* seq[:2]
FirstTwo(seq) == SubSeq(seq, 1, IF Len(seq) < 2 THEN Len(seq) ELSE 2)

GatherBooks(payload) ==
    LET r == JsonLoads(payload)
        book_data == r.val
        results == DictGet(book_data, "results", JList(<<>>))
        books == FirstTwo(results.items)
        book_titles == [i \in 1..Len(books) |-> DictGet(books[i], "title", JStr("Unknown"))]
    IN IF ~r.ok \/ ~IsDict(book_data) THEN JStr("Mystery book recommendations")
       ELSE IF results = JStr("") THEN JStr("Mystery books")
       ELSE IF ~IsList(results) THEN JStr("Mystery book recommendations")
       ELSE IF \E i \in 1..Len(books) : ~IsDict(books[i])
            THEN JStr("Mystery book recommendations")
       ELSE IF \E i \in 1..Len(books) : ~IsStr(book_titles[i])
            THEN JStr("Mystery book recommendations")
       ELSE IF Len(book_titles) = 0 THEN JStr("Mystery books")
       ELSE JStr(JoinStr([i \in 1..Len(book_titles) |-> book_titles[i].s], ", "))

GatherJoke(payload) ==
    LET r == JsonLoads(payload) IN
    IF ~r.ok \/ ~IsDict(r.val) THEN JStr("A lighthearted joke")
    ELSE DictGet(r.val, "joke", JStr("A funny joke!"))

GatherDog(payload) ==
    LET r == JsonLoads(payload) IN
    IF ~r.ok \/ ~IsDict(r.val) THEN JStr("A cute dog picture URL")
    ELSE DictGet(r.val, "message", JStr("cute dog picture"))

\* A question of more than 100 characters and its first 100.
LongQuestion == Rep("q", 101)

Prefix100(s) == IF s = LongQuestion THEN Rep("q", 100) ELSE s

GatherTrivia(payload) ==
    LET r == JsonLoads(payload)
        question == DictGet(r.val, "question", JStr(""))
    IN IF ~r.ok \/ ~IsDict(r.val) \/ ~HasLen(question) THEN JStr("Trivia question")
       ELSE IF PyLen(question) <= 100 THEN question
       ELSE IF IsStr(question) THEN JStr(Prefix100(question.s) \o "...")
       ELSE JStr("Trivia question")

Categories == {"weather", "books", "joke", "dog", "trivia"}

\* The keys of gathered_info in insertion order.
CategoryOrder == <<"weather", "books", "joke", "dog", "trivia">>

\* The if/elif chain on tname: the category a tool's result is stored under.
CategoryOf(tname) ==
    CASE tname = "get_weather" -> "weather"
      [] tname = "book_recs"   -> "books"
      [] tname = "random_joke" -> "joke"
      [] tname = "random_dog"  -> "dog"
      [] tname = "trivia"      -> "trivia"
      [] OTHER                 -> "none"

GatherValue(tname, payload) ==
    CASE tname = "get_weather" -> GatherWeather(payload)
      [] tname = "book_recs"   -> GatherBooks(payload)
      [] tname = "random_joke" -> GatherJoke(payload)
      [] tname = "random_dog"  -> GatherDog(payload)
      [] tname = "trivia"      -> GatherTrivia(payload)
      [] OTHER                 -> JNull

\* A store that keeps only the category of the tool just called.
UpdateGatheredOnlyLatest(info, tname, payload) ==
    [c \in Categories |-> IF c = CategoryOf(tname) THEN GatherValue(tname, payload) ELSE JNull]

\* gathered_info after a successful call of tname that returned payload
UpdateGathered(info, tname, payload) ==
    IF CategoryOf(tname) \in Categories
    THEN [info EXCEPT ![CategoryOf(tname)] = GatherValue(tname, payload)]
    ELSE info

\* gathered_info = {"weather": None, ...}
EmptyGathered == [c \in Categories |-> JNull]

(***************************************************************************)
(* The answers main composes.  The pictographs and the degree sign of the  *)
(* source's labels are left out of the label texts.                        *)
(***************************************************************************)
\* any(gathered_info.values())
AnyGathered(info) == \E c \in Categories : Truthy(info[c])

\* The user inputs of the model and the words each contains in lower case.
PlainUser == "surprise me"

PlanUser == "Weather, a Book and a Joke for Saturday"

UserNeedles(u) == IF u = PlanUser THEN {"weather", "book", "joke"} ELSE {}

\* "weather" in user.lower() and "book" in user.lower() and "joke" in user.lower()
SeveralDomains(u) == {"weather", "book", "joke"} \subseteq UserNeedles(u)

\* not user or user.lower() in {"exit", "quit", "q"}
IsQuit(u) == u \in {"", "exit", "quit", "q", "EXIT", "Quit", "Q"}

PartLabel(c) ==
    CASE c = "weather" -> "Weather: "
      [] c = "books"   -> "Book suggestions: "
      [] c = "joke"    -> "Joke: "
      [] c = "dog"     -> "Dog picture: "

\* The categories a composed answer draws on, in the order of the four ifs.
ComposedOrder == <<"weather", "books", "joke", "dog">>

\* final_answer_parts
FinalAnswerParts(info) ==
    LET filled == SelectSeq(ComposedOrder, LAMBDA c : Truthy(info[c])) IN
    [i \in 1..Len(filled) |-> PartLabel(filled[i]) \o PyStr(info[filled[i]])]

ComposedHeader == "Here's your cozy Saturday plan for New York!\n\n"

\* A final branch that never composes: the decision's answer as it is.
ComposeAnswerVerbatim(dec, info, u) == DictGet(dec, "answer", JStr(""))

\* answer after lines 288-305: the decision's answer, or the composed one
ComposeAnswer(dec, info, u) ==
    IF AnyGathered(info) /\ SeveralDomains(u) /\ Len(FinalAnswerParts(info)) > 0
    THEN JStr(ComposedHeader \o JoinStr(FinalAnswerParts(info), "\n\n"))
    ELSE DictGet(dec, "answer", JStr(""))

\* The length above which an answer is sent to reflect_with_groq (line 308).
ReflectionThreshold == 150

\* The length below which reflect_with_groq answers without a review (line 197).
ReflectionSkipBelow == 200

LooksGood == "looks good"

\* s.lower(), for the review texts of the model
Lower(s) == IF s \in {"Looks good", "LOOKS GOOD", "looks good"} THEN "looks good" ELSE s

\* reflect_with_groq(answer): review is the stripped text of the reviewing model,
\* or "failed" for any exception of the request.
reflect_with_groq(answer, review) ==
    IF PyLen(answer) < ReflectionSkipBelow THEN LooksGood
    ELSE IF review = "failed" THEN LooksGood
    ELSE review

\* answer after lines 307-311
ReflectAnswer(answer, review) ==
    IF PyLen(answer) > ReflectionThreshold
       /\ Lower(reflect_with_groq(answer, review)) # LooksGood
    THEN JStr(reflect_with_groq(answer, review))
    ELSE answer

\* A review is requested from the model (the HTTP call of reflect_with_groq is made).
ReviewRequested(answer) ==
    HasLen(answer) /\ PyLen(answer) > ReflectionThreshold /\ PyLen(answer) >= ReflectionSkipBelow

\* A list with a line for every entry, the empty ones included.
FinalPartsAll(info) ==
    [i \in 1..Len(CategoryOrder) |-> CategoryOrder[i] \o ": " \o PyStr(info[CategoryOrder[i]])]

\* final_parts of the safety check, one "key: value" line per non-empty entry
FinalParts(info) ==
    LET filled == SelectSeq(CategoryOrder, LAMBDA c : Truthy(info[c])) IN
    [i \in 1..Len(filled) |-> filled[i] \o ": " \o PyStr(info[filled[i]])]

ForcedApology == "I tried to gather information but encountered some issues. Let me summarize what I have."

\* final_answer of the safety check
ForcedAnswer(info) ==
    IF Len(FinalParts(info)) > 0
    THEN "Based on what I found:\n" \o JoinStr(FinalParts(info), "\n")
    ELSE ForcedApology

(***************************************************************************)
(* Bounds of the model.                                                    *)
(***************************************************************************)
\* User messages answered in one session.
MaxMessages == 2

\* Replies of the model and results of the tools, per session, that are not the
\* nominal ones (NominalOf, NominalPayload).
MaxDeviations == 1

(***************************************************************************)
(* Program constants of main.                                              *)
(***************************************************************************)
\* for step in range(12)
MaxSteps == 12

\* if step >= 11
SafetyStep == 11

\* The tools server_fun.py registers, in the order of list_tools().
ServerTools == <<"get_weather", "book_recs", "random_joke", "random_dog", "convert_currency", "trivia">>

\* A lookup that takes every string for a key of the registry.
InRegistryAnyName(index, tname) == IsStr(tname)

\* tname in tool_index, for a hashable tname
InRegistry(index, tname) == IsStr(tname) /\ \E i \in 1..Len(index) : index[i] = tname.s

(***************************************************************************)
(* Turns of the history.  A turn is {"role", "content"}; the content is    *)
(* kept by the statement that built it (form) and the values it was built  *)
(* from: the tool name, the list of available tools, the text or value.    *)
(***************************************************************************)
Turn(role, form, name, avail, body) ==
    [role |-> role, form |-> form, name |-> name, avail |-> avail, body |-> body]

\* {"role": "system", "content": system_prompt}
SystemTurn(index) == Turn("system", "system_prompt", "", index, JStr(""))

\* The message of the user appended under the role of the system prompt.
UserTurnAsSystem(u) == Turn("system", "user", "", <<>>, JStr(u))

\* {"role": "user", "content": user}
UserTurn(u) == Turn("user", "user", "", <<>>, JStr(u))

\* f"Need to specify an action. Available: {list(tool_index.keys())}"
NeedActionTurn(index) == Turn("assistant", "need_action", "", index, JStr(""))

\* f"Tool '{tname}' not found. Available: {available_tools}"
NotFoundTurn(index, tname) == Turn("assistant", "not_found", PyStr(tname), index, JStr(""))

\* f"[tool:{tname}] {payload}"
ToolTurn(tname, payload) == Turn("assistant", "tool_response", tname, <<>>, JStr(Text(payload)))

\* The error turn without the name of the tool that failed.
ToolErrorTurnAnon(tname, details) == Turn("assistant", "tool_error", "", <<>>, JStr(details))

\* f"Error with {tname}: {str(e)}"
ToolErrorTurn(tname, details) == Turn("assistant", "tool_error", tname, <<>>, JStr(details))

\* {"role": "assistant", "content": answer} of the final branch
AnswerTurn(answer) == Turn("assistant", "answer", "", <<>>, answer)

\* {"role": "assistant", "content": final_answer} of the safety check
ForcedTurn(final_answer) == Turn("assistant", "forced", "", <<>>, JStr(final_answer))

(***************************************************************************)
(* The environment: what the decision model replies, what the tools        *)
(* return, what the reviewing model replies, what the user types.          *)
(***************************************************************************)
OkReply(content) == Reply("ok", content)

\* The reply a model emits for an action: the JSON text of the action.
Emit(action) == OkReply(Dumps(action))

\* The nominal reply: a call of a registered tool without arguments.
NominalReply == Emit(CallDecision(JStr("random_joke"), EmptyDict))

\* A call of a registered tool whose result main gathers nothing from.
QuietReply == Emit(CallDecision(JStr("convert_currency"), EmptyDict))

\* The reply a session of kind e holds for nominal.
NominalOf(e) == IF e = "control" THEN QuietReply ELSE NominalReply

ShortAnswer == "Have a nice weekend!"

\* Answers of 151 and of 200 characters.
Answer151 == Rep("a", 151)

Answer200 == Rep("b", 200)

WeatherArgs == JObj(<<KV("latitude", JNum("40.7128")), KV("longitude", JNum("-74.0060"))>>)

\* The sessions of the model come in three kinds, by what the environment does
\* besides the nominal: "control" (answers, unknown and missing tool names, failed
\* model calls, raising tools), "answers" (answers long and short, other tools,
\* tool payloads, reviews), "decode" (replies that are not the JSON object asked
\* for), "compose" (users naming several domains, answers and failed model calls
\* early in a message, after calls of tools of several categories).
Environments == {"control", "answers", "decode", "compose"}

\* The replies of the decision model, by kind of session.
ControlReplies ==
    { QuietReply,
      Emit(FinalDecision(JStr(ShortAnswer))),
      Emit(CallDecision(JStr("city_to_coords"), EmptyDict)),
      Emit(CallDecision(JStr(""), EmptyDict)),
      Reply("status", <<>>),
      Reply("connection", <<>>) }

AnswerReplies ==
    { Emit(FinalDecision(JStr(ShortAnswer))),
      Emit(FinalDecision(JStr(Answer151))),
      Emit(FinalDecision(JStr(Answer200))),
      Emit(CallDecision(JStr("get_weather"), WeatherArgs)),
      Emit(CallDecision(JStr("convert_currency"), EmptyDict)) }

\* The calls a session of kind "compose" may open a message with.
FirstCalls ==
    { Emit(CallDecision(JStr("get_weather"), WeatherArgs)),
      Emit(CallDecision(JStr("trivia"), EmptyDict)) }

ComposeReplies == {Emit(FinalDecision(JStr(ShortAnswer))), Reply("status", <<>>)} \cup FirstCalls

DecodeReplies ==
    { Emit(FinalDecision(JNum("123"))),
      Emit(JObj(<<KV("answer", JNull)>>)),
      Emit(CallDecision(JNum("5"), EmptyDict)),
      Emit(CallDecision(JList(<<JStr("get_weather")>>), EmptyDict)),
      Emit(JList(<<CallDecision(JStr("random_joke"), JStr("none"))>>)),
      OkReply(<<Word("call"), Word("city_to_coords")>>) }

RepliesOf(e) ==
    {NominalReply} \cup
    (CASE e = "control" -> ControlReplies
       [] e = "answers" -> AnswerReplies
       [] e = "decode"  -> DecodeReplies
       [] e = "compose" -> ComposeReplies)

LoopReplies ==
    {NominalReply} \cup ControlReplies \cup AnswerReplies \cup DecodeReplies \cup ComposeReplies

\* decision = llm_json(history), by reply
DecisionOf == [r \in LoopReplies |-> llm_json(r)]

\* The text FastMCP returns for a tool that raised on the server.
ServerErrorPayload == <<Word("Error"), Word("executing"), Word("tool")>>

\* The payload a tool returns when all goes well.
NominalPayload(tname) ==
    CASE tname = "get_weather" ->
            Dumps(JObj(<<KV("temperature_2m", JNum("21.5")), KV("weather_code", JNum("61"))>>))
      [] tname = "book_recs" ->
            Dumps(JObj(<<KV("topic", JStr("mystery")),
                         KV("results", JList(<<JObj(<<KV("title", JStr("Gone Girl"))>>)>>))>>))
      [] tname = "random_joke" -> Dumps(JObj(<<KV("joke", JStr("Knock knock"))>>))
      [] tname = "random_dog" -> Dumps(JObj(<<KV("message", JStr("https://dog.ceo/1.jpg"))>>))
      [] tname = "trivia" -> Dumps(JObj(<<KV("question", JStr("Who?"))>>))
      [] OTHER -> Dumps(JObj(<<KV("converted", JNum("2"))>>))

\* The payloads a call of tname may return, by kind of session.
ToolPayloads(e, tname) ==
    IF e = "answers"
    THEN {NominalPayload(tname), ServerErrorPayload, Dumps(EmptyDict)}
    ELSE {NominalPayload(tname)}

\* A call with valid arguments may raise (time out), by kind of session.
MayRaise(e) == e = "control"

\* What the reviewing model may reply ("failed": the request raised).
Reviews == {"looks good", "LOOKS GOOD", "Shorter answer", "failed"}

\* The lines the user may type, stripped, by kind of session.
UserInputs(e) == IF e = "compose" THEN {PlainUser, PlanUser, "exit", ""} ELSE {PlainUser, "exit", ""}

\* session.call_tool validates arguments as a dict or None before sending.
ArgsValid(args) == args.k \in {"obj", "null"}

\* The steps of a message at which the environment may leave the nominal: the
\* first one and the two around the safety check, or the second and third in a
\* session of kind "compose".  The loop body reads step only
\* in that check and in the end of the range.
DeviationSteps(e) == IF e = "compose" THEN {1, 2} ELSE {0, 10, 11}

PayloadCost(tname, payload) == IF payload = NominalPayload(tname) THEN 0 ELSE 1

(***************************************************************************)
(* main: the state of one session.                                         *)
(*   pc = "input"   blocked in input()                                     *)
(*        "llm"     blocked in llm_json(history), the request is out       *)
(*        "call"    blocked in session.call_tool(tname, args)              *)
(*        "exited"  the while loop was left by break                       *)
(*        "crashed" an exception left main                                 *)
(* review_reply is what the request of reflect_with_groq for the answer of *)
(* the message came back with ("failed": it raised), "none" while no such  *)
(* request was made.                                                       *)
(***************************************************************************)
VARIABLES tool_index, history, user, gathered_info, step, reply, decision, pc,
          llm_calls, tool_calls, messages, deviations, env, review_reply

vars == <<tool_index, history, user, gathered_info, step, reply, decision, pc,
          llm_calls, tool_calls, messages, deviations, env, review_reply>>

\* decision.get("action"), decision.get("args", {})
tname == DictGet(decision, "action", JNull)

args == DictGet(decision, "args", EmptyDict)

\* What a reply takes from the budget of deviations of the session: nothing for
\* the nominal reply and for the opening call of a session of kind "compose".
ReplyCost(r) ==
    IF r = NominalOf(env) \/ (env = "compose" /\ step = 0 /\ r \in FirstCalls) THEN 0 ELSE 1

Init ==
    /\ tool_index = ServerTools
    /\ history = <<SystemTurn(ServerTools)>>
    /\ user = ""
    /\ gathered_info = EmptyGathered
    /\ step = 0
    /\ reply = Reply("none", <<>>)
    /\ decision = EmptyDict
    /\ pc = "input"
    /\ llm_calls = 0
    /\ tool_calls = 0
    /\ messages = 0
    /\ deviations = 0
    /\ env \in Environments
    /\ review_reply = "none"

\* Lines 262-264: an empty line or exit/quit/q leaves the while loop.
Quit(u) ==
    /\ pc = "input"
    /\ IsQuit(u)
    /\ user' = u
    /\ pc' = "exited"
    /\ UNCHANGED <<review_reply, tool_index, history, gathered_info, step, reply, decision,
                   llm_calls, tool_calls, messages, deviations, env>>

\* A new message that starts the conversation over: the turns of the earlier
\* messages are dropped.
ReadInputFreshHistory(u) ==
    /\ pc = "input"
    /\ ~IsQuit(u)
    /\ messages < MaxMessages
    /\ user' = u
    /\ history' = <<SystemTurn(tool_index), UserTurn(u)>>
    /\ gathered_info' = EmptyGathered
    /\ step' = 0
    /\ pc' = "llm"
    /\ llm_calls' = 0
    /\ tool_calls' = 0
    /\ messages' = messages + 1
    /\ review_reply' = "none"
    /\ UNCHANGED <<tool_index, reply, decision, deviations, env>>

\* A new message that goes on with the scratch state of the one before it.
ReadInputKeepsScratch(u) ==
    /\ pc = "input"
    /\ ~IsQuit(u)
    /\ messages < MaxMessages
    /\ user' = u
    /\ history' = Append(history, UserTurn(u))
    /\ pc' = "llm"
    /\ llm_calls' = 0
    /\ tool_calls' = 0
    /\ messages' = messages + 1
    /\ review_reply' = "none"
    /\ UNCHANGED <<tool_index, gathered_info, step, reply, decision, deviations, env>>

\* Lines 262-283: a message is read, appended, the scratch state reset, and the
\* first decision requested.
ReadInput(u) ==
    /\ pc = "input"
    /\ ~IsQuit(u)
    /\ messages < MaxMessages
    /\ user' = u
    /\ history' = Append(history, UserTurn(u))
    /\ gathered_info' = EmptyGathered
    /\ step' = 0
    /\ pc' = "llm"
    /\ llm_calls' = 0
    /\ tool_calls' = 0
    /\ messages' = messages + 1
    /\ review_reply' = "none"
    /\ UNCHANGED <<tool_index, reply, decision, deviations, env>>

\* llm_json returns for reply r: the decision is bound.
Decide(r) ==
    /\ pc = "llm"
    /\ r \in RepliesOf(env)
    /\ (env = "compose" /\ r \in FirstCalls) => step = 0
    /\ ReplyCost(r) = 0 \/ step \in DeviationSteps(env)
    /\ deviations + ReplyCost(r) <= MaxDeviations
    /\ reply' = r
    /\ decision' = DecisionOf[r]
    /\ llm_calls' = llm_calls + 1
    /\ deviations' = deviations + ReplyCost(r)

\* A loop without the end of the range: continue always starts another step.
ContinueNoLimit == step' = step + 1 /\ pc' = "llm"

\* continue: the next iteration of the for loop, or its end after the last step.
Continue ==
    IF step + 1 < MaxSteps
    THEN step' = step + 1 /\ pc' = "llm"
    ELSE step' = step /\ pc' = "input"

\* Lines 287-317: a final decision is answered and the for loop left.
AnswerFinal(r, review) ==
    LET answer == ComposeAnswer(DecisionOf[r], gathered_info, user) IN
    /\ Decide(r)
    /\ DictGet(DecisionOf[r], "action", JNull) = JStr("final")
    /\ HasLen(answer)
    /\ review \in (IF ReviewRequested(answer) THEN Reviews ELSE {"failed"})
    /\ review_reply' = (IF ReviewRequested(answer) THEN review ELSE "none")
    /\ history' = Append(history, AnswerTurn(ReflectAnswer(answer, review)))
    /\ pc' = "input"
    /\ UNCHANGED <<tool_index, user, gathered_info, step, tool_calls, messages, env>>

\* Line 308: len(answer) raises TypeError for an answer that has no length.
AnswerFaults(r) ==
    /\ Decide(r)
    /\ DictGet(DecisionOf[r], "action", JNull) = JStr("final")
    /\ ~HasLen(ComposeAnswer(DecisionOf[r], gathered_info, user))
    /\ pc' = "crashed"
    /\ UNCHANGED <<review_reply, tool_index, history, user, gathered_info, step, tool_calls, messages, env>>

\* A decision without an action that is asked again in the same step.
MissingActionSameStep(r) ==
    LET name == DictGet(DecisionOf[r], "action", JNull) IN
    /\ Decide(r)
    /\ name # JStr("final")
    /\ ~Truthy(name)
    /\ history' = Append(history, NeedActionTurn(tool_index))
    /\ pc' = "llm"
    /\ UNCHANGED <<review_reply, tool_index, user, gathered_info, step, tool_calls, messages, env>>

\* Lines 322-326: no action named.
MissingAction(r) ==
    LET name == DictGet(DecisionOf[r], "action", JNull) IN
    /\ Decide(r)
    /\ name # JStr("final")
    /\ ~Truthy(name)
    /\ history' = Append(history, NeedActionTurn(tool_index))
    /\ Continue
    /\ UNCHANGED <<review_reply, tool_index, user, gathered_info, tool_calls, messages, env>>

\* Line 328: tname not in tool_index raises TypeError for an unhashable tname.
LookupFaults(r) ==
    LET name == DictGet(DecisionOf[r], "action", JNull) IN
    /\ Decide(r)
    /\ name # JStr("final")
    /\ Truthy(name)
    /\ ~Hashable(name)
    /\ pc' = "crashed"
    /\ UNCHANGED <<review_reply, tool_index, history, user, gathered_info, step, tool_calls, messages, env>>

\* Lines 328-333: the tool named is not registered.
UnknownTool(r) ==
    LET name == DictGet(DecisionOf[r], "action", JNull) IN
    /\ Decide(r)
    /\ name # JStr("final")
    /\ Truthy(name)
    /\ Hashable(name)
    /\ ~InRegistry(tool_index, name)
    /\ history' = Append(history, NotFoundTurn(tool_index, name))
    /\ Continue
    /\ UNCHANGED <<review_reply, tool_index, user, gathered_info, tool_calls, messages, env>>

\* Lines 335-337: session.call_tool(tname, args) is called.
IssueCall(r) ==
    LET name == DictGet(DecisionOf[r], "action", JNull) IN
    /\ Decide(r)
    /\ name # JStr("final")
    /\ Truthy(name)
    /\ Hashable(name)
    /\ InRegistry(tool_index, name)
    /\ tool_calls' = tool_calls + 1
    /\ pc' = "call"
    /\ UNCHANGED <<review_reply, tool_index, history, user, gathered_info, step, messages, env>>

\* A dispatch that drops the turn of the step unless the safety check fires.
SafetyCheckNoAppend(turn, info) ==
    IF step >= SafetyStep
    THEN /\ history' = history \o <<turn, ForcedTurn(ForcedAnswer(info))>>
         /\ step' = step
         /\ pc' = "input"
    ELSE /\ history' = history
         /\ Continue

\* Lines 398-415: the safety check after a tool call.
SafetyCheck(turn, info) ==
    IF step >= SafetyStep
    THEN /\ history' = history \o <<turn, ForcedTurn(ForcedAnswer(info))>>
         /\ step' = step
         /\ pc' = "input"
    ELSE /\ history' = Append(history, turn)
         /\ Continue

\* Lines 337-391, 398-415: the call returns payload.
ToolReturns(payload) ==
    /\ pc = "call"
    /\ ArgsValid(args)
    /\ payload \in ToolPayloads(env, tname.s)
    /\ PayloadCost(tname.s, payload) = 0 \/ step \in DeviationSteps(env)
    /\ deviations + PayloadCost(tname.s, payload) <= MaxDeviations
    /\ deviations' = deviations + PayloadCost(tname.s, payload)
    /\ gathered_info' = UpdateGathered(gathered_info, tname.s, payload)
    /\ SafetyCheck(ToolTurn(tname.s, payload), UpdateGathered(gathered_info, tname.s, payload))
    /\ UNCHANGED <<review_reply, tool_index, user, reply, decision, llm_calls, tool_calls, messages, env>>

\* Lines 393-396, 398-415: the call raises.
ToolRaises ==
    LET cost == IF ArgsValid(args) THEN 1 ELSE 0 IN
    /\ pc = "call"
    /\ MayRaise(env) \/ ~ArgsValid(args)
    /\ cost = 0 \/ step \in DeviationSteps(env)
    /\ deviations + cost <= MaxDeviations
    /\ deviations' = deviations + cost
    /\ SafetyCheck(ToolErrorTurn(tname.s, IF ArgsValid(args) THEN "timed out" ELSE "validation error"),
                   gathered_info)
    /\ UNCHANGED <<review_reply, tool_index, user, gathered_info, reply, decision, llm_calls, tool_calls, messages, env>>

Next ==
    \/ \E u \in UserInputs(env) : Quit(u)
    \/ \E u \in UserInputs(env) : ReadInput(u)
    \/ \E r \in LoopReplies, review \in Reviews : AnswerFinal(r, review)
    \/ \E r \in LoopReplies : AnswerFaults(r)
    \/ \E r \in LoopReplies : MissingAction(r)
    \/ \E r \in LoopReplies : LookupFaults(r)
    \/ \E r \in LoopReplies : UnknownTool(r)
    \/ \E r \in LoopReplies : IssueCall(r)
    \/ \E payload \in ToolPayloads(env, tname.s) : ToolReturns(payload)
    \/ ToolRaises

Spec == Init /\ [][Next]_vars

(***************************************************************************)
(* The decoder on its own: llm_json applied to one reply.                  *)
(***************************************************************************)
DecoderNames == {"random_joke", "get_weather", "book_recs", "final", "", "nonexistent_tool"}

DecoderScalars == {JStr("hello"), JStr(""), JNum("123"), JNum("0"), JNull, JBool(TRUE)}

DecoderArgs ==
    {EmptyDict, WeatherArgs,
     JObj(<<KV("topic", JStr("mystery")), KV("limit", JNum("2"))>>),
     JObj(<<KV("topic", JStr(FencedTopic))>>),
     JStr("x"), JList(<<JNum("1")>>), JNull}

\* The JSON objects a reply may hold.
DecoderObjects ==
    {CallDecision(JStr(n), a) : n \in DecoderNames, a \in DecoderArgs}
    \cup {JObj(<<KV("action", JStr(n))>>) : n \in DecoderNames}
    \cup {JObj(<<KV("action", v)>>) : v \in {JNum("5"), JNull, JList(<<JStr("get_weather")>>)}}
    \cup {FinalDecision(v) : v \in DecoderScalars \cup {JList(<<JStr("a")>>)}}
    \cup {JObj(<<KV("answer", v)>>) : v \in DecoderScalars}
    \cup {JObj(<<KV("response", JStr("r"))>>),
          JObj(<<KV("response", JStr("r")), KV("answer", JStr("a"))>>),
          JObj(<<KV("foo", JStr("bar"))>>), EmptyDict}

SomeObjects ==
    {CallDecision(JStr("random_joke"), EmptyDict),
     CallDecision(JStr("get_weather"), WeatherArgs),
     CallDecision(JStr("random_joke"), JStr("x")),
     FinalDecision(JStr("")), FinalDecision(JNull), JObj(<<KV("action", JStr("final"))>>),
     JObj(<<KV("foo", JStr("bar"))>>)}

\* The JSON lists a reply may hold.
DecoderLists ==
    {JList(<<>>), JList(<<JStr("hello")>>), JList(<<JNum("1"), JNum("2")>>)}
    \cup {JList(<<o>>) : o \in SomeObjects}
    \cup {JList(<<o1, o2>>) : o1 \in SomeObjects, o2 \in SomeObjects}
    \cup {JList(<<JStr("hello"), o>>) : o \in SomeObjects}

DecoderValues == DecoderObjects \cup DecoderLists \cup DecoderScalars

\* Texts that are not JSON: words, tool names, numbers.
DecoderWords ==
    { <<>>,
      <<Word("Sure")>>,
      <<Word("call"), Word("random_joke")>>,
      <<Word("call"), Word("Random_Joke")>>,
      <<Word("call"), Word("get_weather"), TNum("40.7128"), Comma, TNum("-74.0060")>>,
      <<Word("call"), Word("Get_Weather")>>,
      <<Word("use"), Word("book_recs"), Word("mystery")>>,
      <<Word("use"), Word("book_recs")>>,
      <<Word("use"), Word("trivia"), Word("random_dog")>>,
      <<Word("use"), Word("city_to_coords"), TNum("1.0"), TNum("2.0")>>,
      <<Word("the"), Word("weather"), Word("random_joke")>>,
      <<Word("the"), Word("temperature")>>,
      <<Word("my"), Word("answer")>>,
      <<Word("convert_currency")>> }

\* The contents of the replies given to the decoder.
DecoderContents ==
    {Dumps(v) : v \in DecoderValues}
    \cup {<<Word("Sure")>> \o Dumps(v) : v \in DecoderObjects \cup DecoderLists}
    \cup {<<Fence("json")>> \o Dumps(v) \o <<Fence("")>> : v \in SomeObjects}
    \cup {SubSeq(Dumps(v), 1, Len(Dumps(v)) - 1) : v \in DecoderObjects}
    \cup {Dumps(v) \o <<Word("ok"), RBrack>> : v \in SomeObjects}
    \cup DecoderWords

DecoderReplies ==
    {OkReply(c) : c \in DecoderContents} \cup {Reply("status", <<>>), Reply("connection", <<>>)}

InitDecode ==
    /\ tool_index = ServerTools
    /\ history = <<SystemTurn(ServerTools)>>
    /\ user = ""
    /\ gathered_info = EmptyGathered
    /\ step = 0
    /\ reply \in DecoderReplies
    /\ decision = EmptyDict
    /\ pc = "decode"
    /\ llm_calls = 0
    /\ tool_calls = 0
    /\ messages = 0
    /\ deviations = 0
    /\ env = "decode"
    /\ review_reply = "none"

\* Lines 57-193: llm_json returns the decision for the reply.
DecodeStep ==
    /\ pc = "decode"
    /\ decision' = llm_json(reply)
    /\ pc' = "decoded"
    /\ llm_calls' = llm_calls + 1
    /\ UNCHANGED <<review_reply, tool_index, history, user, gathered_info, step, reply, tool_calls,
                   messages, deviations, env>>

NextDecode == DecodeStep

SpecDecode == InitDecode /\ [][NextDecode]_vars

(***************************************************************************)
(* Properties.                                                             *)
(***************************************************************************)
\* The index of the turn of the message being answered (the last user turn).
LastUser ==
    IF \E i \in 1..Len(history) : history[i].role = "user"
    THEN SetMax({i \in 1..Len(history) : history[i].role = "user"})
    ELSE 1

\* The turns appended for the message being answered.
MessageTurns == SubSeq(history, LastUser + 1, Len(history))

LastTurn == history[Len(history)]

\* A terminal answer turn: the final answer or the answer of the safety check.
Terminal(turn) == turn.role = "assistant" /\ turn.form \in {"answer", "forced"}

NonTerminalForms == {"tool_response", "need_action", "not_found", "tool_error"}

\* The name of the decision is that of a registered tool.
NamesRegisteredTool == tname.k = "str" /\ \E i \in 1..Len(tool_index) : tool_index[i] = tname.s

\* The decision is a tool call that does not name a registered tool.
NamesNoTool == tname # JStr("final") /\ ~NamesRegisteredTool

\* C1: whenever the processing of a message has ended (the next input is awaited
\* or the session was left), the last turn of the history is a terminal answer:
\* the final answer or the answer of the safety check.
C1_EndsWithTerminalAnswer ==
    (pc \in {"input", "exited"} /\ messages > 0) => Terminal(LastTurn)

\* C2: for one user message llm_json is called at most 12 times and
\* session.call_tool at most 12 times.
C2_AtMostTwelveCycles == llm_calls <= 12 /\ tool_calls <= 12

C2_Witness == pc = "input" /\ llm_calls = 12 /\ tool_calls = 12

\* C3: when all 12 decisions of a message were tool calls, the message has ended
\* with 13 turns: the 12 turns of the steps, none of them terminal, and after
\* them exactly one terminal turn, the answer of the safety check.
C3_ForcedAfterTwelveToolCalls ==
    (pc = "input" /\ messages > 0 /\ llm_calls = 12 /\ tname # JStr("final")) =>
        /\ Len(MessageTurns) = 13
        /\ LastTurn.form = "forced"
        /\ \A i \in 1..(Len(MessageTurns) - 1) : ~Terminal(MessageTurns[i])

\* C4: while session.call_tool is in progress, the name it was called with is a
\* key of the tool registry.
C4_CallsOnlyRegisteredTools ==
    pc = "call" => (tname.k = "str" /\ \E i \in 1..Len(tool_index) : tool_index[i] = tname.s)

C4_Witness ==
    /\ pc = "call"
    /\ \E i \in 1..Len(MessageTurns) : MessageTurns[i].form \in {"not_found", "need_action"}

\* A well-formed action, as main reads it: a final whose answer is a string, or
\* a tool call whose name is a string and whose args is a dict.
WellFormedAction(d) ==
    /\ IsDict(d)
    /\ IF DictGet(d, "action", JNull) = JStr("final")
       THEN IsStr(DictGet(d, "answer", JStr("")))
       ELSE IsStr(DictGet(d, "action", JNull)) /\ IsDict(DictGet(d, "args", EmptyDict))

\* C5: for every reply, the decision llm_json returns is a well-formed action.
C5_DecoderWellFormed == pc = "decoded" => WellFormedAction(decision)

\* C6: whenever a decision is requested or a tool call is in progress at step
\* number step, the message has exactly step turns so far, one per completed
\* step, each an assistant turn that is not a terminal answer.
C6_OneTurnPerOutcome ==
    pc \in {"llm", "call"} =>
        /\ Len(MessageTurns) = step
        /\ \A i \in 1..Len(MessageTurns) :
              MessageTurns[i].role = "assistant" /\ MessageTurns[i].form \in NonTerminalForms

C6_Witness ==
    /\ pc = "llm"
    /\ \E i \in 1..Len(MessageTurns) : MessageTurns[i].form = "tool_response"
    /\ \E i \in 1..Len(MessageTurns) : MessageTurns[i].form \in {"tool_error", "not_found", "need_action"}

\* C7: after a decision that names no registered tool, the session has not
\* ended, no call was made for it, and the last turn is one assistant turn that
\* lists all the registered tools.
C7_UnknownToolRecoverable ==
    (llm_calls > 0 /\ NamesNoTool) =>
        /\ pc \in {"llm", "input", "exited"}
        /\ LastTurn.role = "assistant"
        /\ LastTurn.form \in {"need_action", "not_found"}
        /\ LastTurn.avail = tool_index
        /\ Len(MessageTurns) = llm_calls
        /\ tool_calls < llm_calls

\* The tool call in progress ends without a payload.
CallRaises ==
    /\ pc = "call"
    /\ ~(Len(history') > Len(history) /\ history'[Len(history) + 1].form = "tool_response")

\* C8: a tool call that raises appends exactly one assistant turn "Error with
\* {name}: ..." and the loop goes on: to the next decision, or, at the last step,
\* to the answer of the safety check and the next input.
C8_ToolFailureRecoverable ==
    [][CallRaises =>
        /\ Len(history') > Len(history)
        /\ SubSeq(history', 1, Len(history)) = history
        /\ history'[Len(history) + 1].role = "assistant"
        /\ history'[Len(history) + 1].form = "tool_error"
        /\ history'[Len(history) + 1].name = tname.s
        /\ IF step < SafetyStep
           THEN Len(history') = Len(history) + 1 /\ pc' = "llm" /\ step' = step + 1
           ELSE /\ Len(history') = Len(history) + 2
                /\ history'[Len(history) + 2].form = "forced"
                /\ pc' = "input"]_vars

C8_Witness ==
    /\ pc = "input"
    /\ Len(history) > 2
    /\ history[Len(history) - 1].form = "tool_error"
    /\ LastTurn.form = "forced"

\* C9: after a final decision the loop has ended for the message: the next input
\* is awaited, the last turn is the one assistant turn of the answer, no tool
\* was called in that step, and the registry is the one built at startup.
C9_FinalTerminatesImmediately ==
    (llm_calls > 0 /\ tname = JStr("final")) =>
        /\ pc \in {"input", "exited"}
        /\ Terminal(LastTurn) /\ LastTurn.form = "answer"
        /\ Len(MessageTurns) = llm_calls
        /\ \A i \in 1..(Len(MessageTurns) - 1) : ~Terminal(MessageTurns[i])
        /\ tool_calls < llm_calls
        /\ tool_index = ServerTools

\* C10: the history holds exactly one system turn, the first one; every later
\* turn has role user or assistant.
C10_OneSystemTurnFirst ==
    /\ Len(history) >= 1
    /\ history[1].role = "system"
    /\ \A i \in 2..Len(history) : history[i].role \in {"user", "assistant"}

C10_Witness ==
    /\ Cardinality({i \in 1..Len(history) : history[i].role = "user"}) = 2
    /\ Cardinality({i \in 1..Len(history) : history[i].role = "assistant"}) > 2

\* C11: every step of a session leaves the turns the history already holds as
\* they are and in their order: the history after the step starts with the
\* history before it, and is never shorter.
C11_HistoryAppendOnly ==
    [][Len(history') >= Len(history) /\ SubSeq(history', 1, Len(history)) = history]_vars

C11_Witness ==
    /\ messages = 2
    /\ \E i \in 1..Len(history) : history[i].form = "forced"
    /\ \E i \in 1..Len(history) : history[i].form \in {"tool_error", "not_found", "need_action"}
    /\ LastTurn.form = "tool_response"

\* C12: after a decision that came from a failed call of the decision model (a
\* status other than 200, or a connection error), the message has ended with the
\* fixed apology of that failure as its last turn, an assistant turn, and the
\* next input is awaited.
C12_ModelFailureApologises ==
    (llm_calls > 0 /\ reply.kind \in {"status", "connection"}) =>
        /\ pc \in {"input", "exited"}
        /\ LastTurn.role = "assistant"
        /\ LastTurn.form = "answer"
        /\ LastTurn.body = JStr(IF reply.kind = "status" THEN StatusErrorAnswer
                                                         ELSE ConnectionErrorAnswer)

\* C13: for every tool name n and every args mapping a, the decision decoded from
\* the JSON text {"action": n, "args": a} has the name n and the args a.
C13_ToolCallRoundTrip ==
    \A n \in DecoderNames \ {"final"}, a \in {x \in DecoderArgs : IsDict(x)} :
        (pc = "decoded" /\ reply = Emit(CallDecision(JStr(n), a))) =>
            /\ DictGet(decision, "action", JNull) = JStr(n)
            /\ DictGet(decision, "args", JNull) = a

\* The JSON value the cleaned content of the reply parses to.
ParsedReply == JsonLoads(CleanContent(reply.content))

\* The reply was decoded and its content is the JSON text of an object.
DecodedObject == pc = "decoded" /\ reply.kind = "ok" /\ ParsedReply.ok /\ IsDict(ParsedReply.val)

\* C14: the decision decoded from a JSON object.  With "action" equal to "final"
\* it is a Final with the object's answer, or with the fixed fallback string when
\* the answer is missing or empty (false in Python's sense); with another
\* "action" it is a tool call of that name, with the "args" field when that is
\* an object and the empty mapping otherwise; without "action" it is a Final
\* with the value of "answer", or else of "response".
C14_ObjectDecoding ==
    DecodedObject =>
        LET obj == ParsedReply.val IN
        IF HasKey(obj, "action")
        THEN IF Lookup(obj, "action") = JStr("final")
             THEN /\ Len(decision.fields) = 2
                  /\ DictGet(decision, "action", JNull) = JStr("final")
                  /\ \/ /\ HasKey(obj, "answer") /\ Truthy(Lookup(obj, "answer"))
                        /\ Lookup(decision, "answer") = Lookup(obj, "answer")
                     \/ /\ ~HasKey(obj, "answer") \/ ~Truthy(Lookup(obj, "answer"))
                        /\ Lookup(decision, "answer") = JStr(DefaultFinalAnswer)
             ELSE /\ Len(decision.fields) = 2
                  /\ DictGet(decision, "action", JNull) = Lookup(obj, "action")
                  /\ \/ /\ HasKey(obj, "args") /\ IsDict(Lookup(obj, "args"))
                        /\ Lookup(decision, "args") = Lookup(obj, "args")
                     \/ /\ ~HasKey(obj, "args") \/ ~IsDict(Lookup(obj, "args"))
                        /\ Lookup(decision, "args") = EmptyDict
        ELSE /\ HasKey(obj, "answer") => decision = FinalDecision(Lookup(obj, "answer"))
             /\ (~HasKey(obj, "answer") /\ HasKey(obj, "response")) =>
                    decision = FinalDecision(Lookup(obj, "response"))

C14_Witness ==
    /\ DecodedObject
    /\ ParsedReply.val = CallDecision(JStr("random_joke"), JStr("x"))
    /\ decision = CallDecision(JStr("random_joke"), EmptyDict)

\* The reply was decoded and its content is the JSON text of a list.
DecodedList == pc = "decoded" /\ reply.kind = "ok" /\ ParsedReply.ok /\ IsList(ParsedReply.val)

\* C15: the decision decoded from a JSON list is the first element that is an
\* object with "action", decoded by the rules of a top-level object (the answer
\* of a final defaulting to the fallback string, args that are no object replaced
\* by the empty mapping); without such an element it is a Final with the first
\* element as a string; for the empty list it is the fixed fallback Final.
C15_ListDecoding ==
    DecodedList =>
        LET items == ParsedReply.val.items
            hits  == {i \in 1..Len(items) : IsDict(items[i]) /\ HasKey(items[i], "action")}
        IN IF hits # {} THEN decision = DecodeDict(items[SetMin(hits)])
           ELSE IF Len(items) > 0 THEN decision = FinalDecision(JStr(PyStr(items[1])))
           ELSE decision = FinalDecision(JStr(EmptyListAnswer))

\* The reply was decoded and its content is no JSON text and holds no JSON
\* object or array that parses.
DecodedPlainText ==
    /\ pc = "decoded"
    /\ reply.kind = "ok"
    /\ ~ParsedReply.ok
    /\ LET m == JsonMatch(CleanContent(reply.content)) IN ~m.found \/ ~JsonLoads(m.group).ok

\* C16: the decision decoded from a text without JSON.  When the text holds one
\* of the known tool names the decision is a tool call of a name the text holds,
\* for get_weather with the two floats of the text as latitude and longitude;
\* only when it holds none is the decision a Final with the whole text.
C16_FallbackChain ==
    DecodedPlainText =>
        LET content == CleanContent(reply.content)
            named   == {FallbackToolNames[i] : i \in MentionedTools(content)}
            action  == DictGet(decision, "action", JNull)
        IN IF named # {}
           THEN /\ action \in {JStr(n) : n \in named}
                /\ IsDict(DictGet(decision, "args", JNull))
                /\ (action = JStr("get_weather") /\ CoordMatch(content).found) =>
                       Lookup(decision, "args") =
                           JObj(<<KV("latitude", JNum(CoordMatch(content).lat)),
                                  KV("longitude", JNum(CoordMatch(content).lon))>>)
           ELSE decision = FinalDecision(JStr(Text(content)))

\* The message has ended with the answer of a final decision and the next input
\* is awaited.
FinalAnswered == llm_calls > 0 /\ pc = "input" /\ LastTurn.form = "answer"

\* C17: the answer of a final decision was reviewed by the reviewing model exactly
\* when it is longer than 150 characters, and the turn appended is the review
\* when one came back that is not "looks good" in any case of letters, the answer
\* itself otherwise.
C17_ReviewedAbove150 ==
    FinalAnswered =>
        LET answer == ComposeAnswer(decision, gathered_info, user) IN
        /\ (review_reply # "none") <=> (PyLen(answer) > 150)
        /\ LastTurn.body = (IF review_reply \notin {"none", "failed"} /\ Lower(review_reply) # "looks good"
                            THEN JStr(review_reply) ELSE answer)

\* The message has ended with the answer of a final decision that no review
\* replaced: the turn holds the answer as it was before the reflection.
FinalUnreviewed == FinalAnswered /\ review_reply = "none"

\* The answer that merges the summaries of the populated categories.
CombinedAnswer == JStr(ComposedHeader \o JoinStr(FinalAnswerParts(gathered_info), "\n\n"))

\* The answer of the decision as the model gave it.
VerbatimAnswer == DictGet(decision, "answer", JStr(""))

\* C18 as stated: the answer of a final decision is the combined answer when two
\* or more categories of gathered_info are populated and the user's message
\* names the several domains, and the model's answer verbatim in every other case.
C18_CombinedOnlyForMultiple ==
    FinalUnreviewed =>
        IF /\ Cardinality({c \in Categories : Truthy(gathered_info[c])}) >= 2
           /\ SeveralDomains(user)
        THEN LastTurn.body = CombinedAnswer
        ELSE LastTurn.body = VerbatimAnswer

\* C18, amended: the answer of a final decision is the combined answer when at
\* least one of the categories weather, books, joke, dog is populated and the
\* user's message names the several domains, and the model's answer verbatim in
\* every other case.
C18_CombinedForAny ==
    FinalUnreviewed =>
        IF /\ \E c \in {"weather", "books", "joke", "dog"} : Truthy(gathered_info[c])
           /\ SeveralDomains(user)
        THEN LastTurn.body = CombinedAnswer
        ELSE LastTurn.body = VerbatimAnswer

C18_Witness ==
    /\ FinalUnreviewed
    /\ SeveralDomains(user)
    /\ Cardinality({c \in Categories : Truthy(gathered_info[c])}) = 1
    /\ LastTurn.body = CombinedAnswer
    /\ LastTurn.body # VerbatimAnswer

\* One line of the labeled list: the entry of category c, if it is populated.
ForcedLine(c) ==
    IF Truthy(gathered_info[c]) THEN "\n" \o c \o ": " \o PyStr(gathered_info[c]) ELSE ""

\* C19: the answer of the safety check is built from gathered_info alone: the
\* fixed apology when no entry is populated, else the heading followed by one
\* line "key: value" for each populated entry, in the order of the entries, and
\* no line for an empty one.
C19_ForcedAnswerFromGathered ==
    (pc = "input" /\ LastTurn.form = "forced") =>
        LastTurn.body =
            JStr(IF \A c \in Categories : ~Truthy(gathered_info[c])
                 THEN ForcedApology
                 ELSE "Based on what I found:" \o ForcedLine("weather") \o ForcedLine("books")
                      \o ForcedLine("joke") \o ForcedLine("dog") \o ForcedLine("trivia"))

C19_Witness ==
    /\ pc = "input"
    /\ LastTurn.form = "forced"
    /\ Truthy(gathered_info["joke"])
    /\ ~Truthy(gathered_info["weather"])
    /\ \E i \in 1..Len(history) : history[i].form = "forced" /\ history[i].body = JStr(ForcedApology)

\* C20: the step that starts a message appends the user turn with the line read
\* and leaves every category of gathered_info empty and the step counter at the
\* first step; and at every moment each populated category of gathered_info
\* comes from a tool result among the turns of the message being answered.
C20_ScratchResetPerMessage ==
    /\ [][messages' # messages =>
            /\ Len(history') = Len(history) + 1
            /\ SubSeq(history', 1, Len(history)) = history
            /\ history'[Len(history')].role = "user"
            /\ history'[Len(history')].body = JStr(user')
            /\ \A c \in Categories : gathered_info'[c] = JNull
            /\ step' = 0
            /\ pc' = "llm"]_vars
    /\ [](\A c \in Categories :
            Truthy(gathered_info[c]) =>
                \E i \in 1..Len(MessageTurns) :
                    /\ MessageTurns[i].form = "tool_response"
                    /\ CategoryOf(MessageTurns[i].name) = c)

C20_Witness ==
    /\ messages = 2
    /\ pc = "llm"
    /\ step = 0
    /\ \A c \in Categories : gathered_info[c] = JNull
    /\ history[Len(history) - 1].form = "forced"
    /\ history[Len(history) - 1].body # JStr(ForcedApology)

\* The turn a step of the loop appends first.
AppendedTurn == history'[Len(history) + 1]

\* The tools whose results main stores in gathered_info.
GatheringTools == {"get_weather", "book_recs", "random_joke", "random_dog", "trivia"}

\* C21: within a message gathered_info changes only in a step in which a call of
\* a registered tool among get_weather, book_recs, random_joke, random_dog and
\* trivia returned, and then only in the category of that tool; a step that
\* answers a Final decision, reports a missing or an unknown tool name or a
\* raising call, or stores the result of any other tool leaves every category
\* as it was.
C21_GatheredChangesOnlyOnResult ==
    [][messages' = messages =>
        /\ gathered_info' # gathered_info =>
              /\ pc = "call"
              /\ Len(history') > Len(history)
              /\ AppendedTurn.form = "tool_response"
              /\ AppendedTurn.name = tname.s
              /\ tname.s \in GatheringTools
              /\ InRegistry(tool_index, tname)
              /\ \A c \in Categories :
                    c # CategoryOf(tname.s) => gathered_info'[c] = gathered_info[c]
        /\ (/\ Len(history') > Len(history)
            /\ \/ AppendedTurn.form \in {"answer", "need_action", "not_found", "tool_error"}
               \/ AppendedTurn.form = "tool_response" /\ AppendedTurn.name \notin GatheringTools)
              => gathered_info' = gathered_info]_vars

C21_Witness ==
    /\ Truthy(gathered_info["joke"])
    /\ LastTurn.form = "tool_error"
    /\ LastTurn.name = "random_joke"
    /\ pc = "llm"

\* C22: every decision takes one step of range(12) whatever comes of it: while a
\* decision is awaited the decisions made for the message are as many as the
\* steps passed, never more than 12 are made, and a decision with a missing or an
\* unknown tool name moves on to the next step as a tool call does, or, at the
\* twelfth step, ends the message with no further decision.
C22_EveryDecisionTakesAStep ==
    /\ [](/\ llm_calls <= MaxSteps
          /\ pc = "llm" => llm_calls = step /\ step < MaxSteps
          /\ pc \in {"call", "crashed"} => llm_calls = step + 1)
    /\ [][llm_calls' = llm_calls + 1 =>
            /\ llm_calls' = step + 1
            /\ (Len(history') > Len(history) /\ AppendedTurn.form \in {"need_action", "not_found"}) =>
                  /\ Len(history') = Len(history) + 1
                  /\ tool_calls' = tool_calls
                  /\ IF step + 1 < MaxSteps
                     THEN step' = step + 1 /\ pc' = "llm"
                     ELSE pc' = "input"]_vars

C22_Witness ==
    /\ pc = "input"
    /\ llm_calls = MaxSteps
    /\ tool_calls = MaxSteps - 1
    /\ LastTurn.form = "not_found"

====
